---- MODULE Spec2Model ----
(***************************************************************************)
(* JobConfig of flame/config_manager.py: the resolution of a training      *)
(* configuration from argparse defaults, a TOML file and the command line. *)
(*                                                                         *)
(* Python values are tagged records [t, v].  A string is a sequence of     *)
(* pieces: a piece is one character, or a fixed text holding no comma and  *)
(* no blank (a flag, a path).  A dotted destination "section.key" is the   *)
(* pair <<section, key>>.                                                  *)
(***************************************************************************)
EXTENDS Integers, Sequences, FiniteSets, TLC

\* self:   the attributes of the JobConfig (its __dict__)
\* argv:   the args_list of the last parse_args call
\* file:   what the file system held at that call's config path
\* raised: how that call ended: "none" (it returned) or the exception's type
\* logged: whether that call reported the config path through the logger
\* calls:  the parse_args calls made so far
\* writes: the item assignments the caller made on a mapping to_dict() returned
VARIABLES self, argv, file, raised, logged, calls, writes

vars == <<self, argv, file, raised, logged, calls, writes>>

\* ------------------------------------------------------------ bounds

\* Phrases (a flag with its values, or a stray token) in one command line.
MaxFlags == 2

\* Calls of parse_args on one JobConfig (specification SpecSeq).
MaxCalls == 2

\* Item assignments of the caller on what to_dict() returned (specification
\* SpecView).
MaxWrites == 1

\* ------------------------------------------------------------ values

PyNone == [t |-> "none", v |-> <<>>]

PyStr(s) == [t |-> "str", v |-> s]

PyInt(n) == [t |-> "int", v |-> n]

PyBool(b) == [t |-> "bool", v |-> b]

PyList(q) == [t |-> "list", v |-> q]

PyDict(f) == [t |-> "dict", v |-> f]

\* An instance of the class type(k.title(), (), v): its attributes are v's.
PyObj(f) == [t |-> "obj", v |-> f]

EmptyMap == [x \in {} |-> PyNone]

\* Python truth value, as `assert x` takes it.
Truthy(x) ==
    CASE x.t = "none" -> FALSE
      [] x.t = "str" -> x.v # <<>>
      [] x.t = "int" -> x.v # 0
      [] x.t = "bool" -> x.v
      [] x.t = "list" -> x.v # <<>>
      [] x.t = "dict" -> DOMAIN x.v # {}
      [] OTHER -> TRUE

\* ------------------------------------------------------------ string_list

RECURSIVE LStrip(_)
LStrip(s) == IF s # <<>> /\ Head(s) = " " THEN LStrip(Tail(s)) ELSE s

RECURSIVE RStrip(_)
RStrip(s) ==
    IF s # <<>> /\ s[Len(s)] = " " THEN RStrip(SubSeq(s, 1, Len(s) - 1)) ELSE s

\* str.strip()
Strip(s) == RStrip(LStrip(s))

\* str.split(","): the segments between the commas, empty ones included.
RECURSIVE SplitFrom(_, _, _)
SplitFrom(s, i, cur) ==
    IF i > Len(s) THEN <<cur>>
    ELSE IF s[i] = "," THEN <<cur>> \o SplitFrom(s, i + 1, <<>>)
    ELSE SplitFrom(s, i + 1, Append(cur, s[i]))

Split(s) == SplitFrom(s, 1, <<>>)

RECURSIVE StripKeep(_)
StripKeep(segs) ==
    IF segs = <<>> THEN <<>>
    ELSE IF Strip(Head(segs)) # <<>>
         THEN <<PyStr(Strip(Head(segs)))>> \o StripKeep(Tail(segs))
         ELSE StripKeep(Tail(segs))

\* Mutant: the segments kept as they are between the commas, blanks and
\* empty ones included.
string_list_unstripped(raw_arg) ==
    PyList([i \in DOMAIN Split(raw_arg) |-> PyStr(Split(raw_arg)[i])])

\* [s.strip() for s in raw_arg.split(",") if s.strip()]
string_list(raw_arg) == PyList(StripKeep(Split(raw_arg)))

\* ------------------------------------------------------------ the catalog

\* The option strings and the texts of the modelled command lines.
F_config_file == "--job.config_file"
F_print_args == "--job.print_args"
F_config == "--model.config"
F_tokenizer_path == "--model.tokenizer_path"
F_converters == "--model.converters"
F_steps == "--training.steps"
F_split_points == "--experimental.pipeline_parallel_split_points"
F_weights_only == "--checkpoint.initial_load_model_weights_only"
F_no_weights_only == "--checkpoint.no_initial_load_model_weights_only"
F_exclude == "--checkpoint.exclude_from_loading"
\* An option string no add_argument call declares.
F_unknown == "--training.stepz"
\* Texts that start like option strings without being one.
F_step == "--training.step"
F_con == "--model.con"

\* <<text, option string>>: the text is a proper prefix of the option string.
Prefixes ==
    { <<F_step, F_steps>>, <<F_con, F_config>>, <<F_con, F_converters>> }

D_config_file == <<"job", "config_file">>
D_print_args == <<"job", "print_args">>
D_config == <<"model", "config">>
D_tokenizer_path == <<"model", "tokenizer_path">>
D_converters == <<"model", "converters">>
D_steps == <<"training", "steps">>
D_split_points == <<"experimental", "pipeline_parallel_split_points">>
D_weights_only == <<"checkpoint", "initial_load_model_weights_only">>
D_exclude == <<"checkpoint", "exclude_from_loading">>

DefaultSteps == 10000

DefaultModel == PyStr(<<"fla-hub/transformer-1.3B-100B">>)

Arg(flag, dest, action, type, nargs, default) ==
    [flag |-> flag, dest |-> dest, action |-> action, type |-> type,
     nargs |-> nargs, default |-> default]

\* self.parser._actions, in the order of the add_argument calls (the options
\* modelled: one of each kind the catalog holds).
Parser ==
    << Arg(F_config_file, D_config_file, "store", "str", "None", PyNone),
       Arg(F_print_args, D_print_args, "store_true", "None", "0", PyBool(FALSE)),
       Arg(F_config, D_config, "store", "str", "None", DefaultModel),
       Arg(F_tokenizer_path, D_tokenizer_path, "store", "str", "None", DefaultModel),
       Arg(F_converters, D_converters, "store", "string_list", "+", PyList(<<>>)),
       Arg(F_steps, D_steps, "store", "int", "None", PyInt(DefaultSteps)),
       Arg(F_split_points, D_split_points, "store", "string_list", "+", PyList(<<>>)),
       Arg(F_weights_only, D_weights_only, "store_true", "None", "0", PyBool(TRUE)),
       Arg(F_no_weights_only, D_weights_only, "store_false", "None", "0", PyBool(TRUE)),
       Arg(F_exclude, D_exclude, "store", "string_list", "*", PyList(<<>>)) >>

Dests == {Parser[i].dest : i \in DOMAIN Parser}

\* "--" + arg for a destination arg: the option string the auxiliary parser
\* declares for it.
OptionString(dest) ==
    CASE dest = D_config_file -> F_config_file
      [] dest = D_print_args -> F_print_args
      [] dest = D_config -> F_config
      [] dest = D_tokenizer_path -> F_tokenizer_path
      [] dest = D_converters -> F_converters
      [] dest = D_steps -> F_steps
      [] dest = D_split_points -> F_split_points
      [] dest = D_weights_only -> F_weights_only
      [] dest = D_exclude -> F_exclude

\* ------------------------------------------------------------ argparse

\* argparse takes a token that starts with "-" for an option string.
IsOptionString(tok) ==
    /\ Len(tok) = 1
    /\ tok[1] \in {Parser[i].flag : i \in DOMAIN Parser} \cup {F_unknown, F_step, F_con}

Digits == {"0", "1", "2", "3", "4", "5", "6", "7", "8", "9"}

DigitVal(d) ==
    CASE d = "0" -> 0 [] d = "1" -> 1 [] d = "2" -> 2 [] d = "3" -> 3
      [] d = "4" -> 4 [] d = "5" -> 5 [] d = "6" -> 6 [] d = "7" -> 7
      [] d = "8" -> 8 [] d = "9" -> 9

RECURSIVE IntOf(_)
IntOf(s) == IF s = <<>> THEN 0 ELSE 10 * IntOf(SubSeq(s, 1, Len(s) - 1)) + DigitVal(s[Len(s)])

\* type(token) as argparse calls it: [ok, v]; a ValueError or TypeError of
\* the conversion is a usage error.
Convert(type, tok) ==
    CASE type = "str" -> [ok |-> TRUE, v |-> PyStr(tok)]
      [] type = "int" ->
            IF tok # <<>> /\ \A i \in DOMAIN tok : tok[i] \in Digits
            THEN [ok |-> TRUE, v |-> PyInt(IntOf(tok))]
            ELSE [ok |-> FALSE, v |-> PyNone]
      [] type = "string_list" -> [ok |-> TRUE, v |-> string_list(tok)]
      [] OTHER -> [ok |-> FALSE, v |-> PyNone]

\* The tokens from i on that are no option strings: the arguments an option
\* at i - 1 may take.
RECURSIVE Run(_, _)
Run(toks, i) ==
    IF i <= Len(toks) /\ ~IsOptionString(toks[i]) THEN 1 + Run(toks, i + 1) ELSE 0

ConvertAll(type, toks) == [i \in DOMAIN toks |-> Convert(type, toks[i])]

\* The list an option with nargs "+" or "*" stores: [ok, v].
Collect(cs) ==
    [ok |-> \A j \in DOMAIN cs : cs[j].ok, v |-> PyList([j \in DOMAIN cs |-> cs[j].v])]

Put(ns, dest, val) == [d \in DOMAIN ns \cup {dest} |-> IF d = dest THEN val ELSE ns[d]]

ParseError == [ok |-> FALSE, ns |-> EmptyMap]

\* The actions an option string selects: the one it names, else those it
\* abbreviates (allow_abbrev); none for one the parser does not know.
ActionsFor(actions, tok) ==
    IF \E i \in DOMAIN actions : actions[i].flag = tok[1]
    THEN {i \in DOMAIN actions : actions[i].flag = tok[1]}
    ELSE {i \in DOMAIN actions : <<tok[1], actions[i].flag>> \in Prefixes}

\* ArgumentParser._parse_known_args over the optionals `actions`: [ok, ns].
\* strict: parse_args, which rejects what it does not recognize;
\* otherwise parse_known_args, which leaves it aside.  An abbreviation
\* that fits several options is an error to both.
RECURSIVE ParseFrom(_, _, _, _, _)
RECURSIVE TakeOption(_, _, _, _, _, _, _)
RECURSIVE Stored(_, _, _, _, _, _, _)

\* The converted value c stored under dest, and the parse goes on at next.
Stored(actions, toks, next, ns, strict, dest, c) ==
    IF c.ok THEN ParseFrom(actions, toks, next, Put(ns, dest, c.v), strict)
    ELSE ParseError

\* The option string at i is that of action a, and n arguments follow it.
TakeOption(actions, toks, i, ns, strict, a, n) ==
    CASE a.action = "store_true" ->
            ParseFrom(actions, toks, i + 1, Put(ns, a.dest, PyBool(TRUE)), strict)
      [] a.action = "store_false" ->
            ParseFrom(actions, toks, i + 1, Put(ns, a.dest, PyBool(FALSE)), strict)
      [] a.nargs = "None" ->
            IF n = 0 THEN ParseError
            ELSE Stored(actions, toks, i + 2, ns, strict, a.dest,
                        Convert(a.type, toks[i + 1]))
      [] OTHER ->
            IF a.nargs = "+" /\ n = 0 THEN ParseError
            ELSE Stored(actions, toks, i + 1 + n, ns, strict, a.dest,
                        Collect(ConvertAll(a.type, SubSeq(toks, i + 1, i + n))))

ParseFrom(actions, toks, i, ns, strict) ==
    IF i > Len(toks) THEN [ok |-> TRUE, ns |-> ns]
    ELSE IF ~IsOptionString(toks[i]) \/ ActionsFor(actions, toks[i]) = {}
    THEN IF strict THEN ParseError ELSE ParseFrom(actions, toks, i + 1, ns, strict)
    ELSE IF Cardinality(ActionsFor(actions, toks[i])) > 1 THEN ParseError
    ELSE TakeOption(actions, toks, i, ns, strict,
                    actions[CHOOSE k \in ActionsFor(actions, toks[i]) : TRUE],
                    Run(toks, i + 1))

\* The defaults argparse sets before it reads a token: for each action in
\* order, if the namespace has no such attribute yet.
RECURSIVE Defaults(_, _, _)
Defaults(actions, i, ns) ==
    IF i > Len(actions) THEN ns
    ELSE Defaults(actions, i + 1,
                  IF actions[i].dest \in DOMAIN ns THEN ns
                  ELSE Put(ns, actions[i].dest, actions[i].default))

\* Mutant: the full parse made with parse_known_args.
MainParse_known(args_list) ==
    ParseFrom(Parser, args_list, 1, Defaults(Parser, 1, EmptyMap), FALSE)

\* self.parser.parse_args(args_list)
MainParse(args_list) == ParseFrom(Parser, args_list, 1, Defaults(Parser, 1, EmptyMap), TRUE)

\* ------------------------------------------------------------ JobConfig

\* _get_string_list_argument_names: the destinations declared with
\* type=string_list.
string_list_argnames == {Parser[i].dest : i \in {k \in DOMAIN Parser : Parser[k].type = "string_list"}}

\* type(val).__name__ of a value of the full parse, as the auxiliary parser
\* takes it for the option's type.
TypeOf(val) ==
    CASE val.t = "str" -> "str"
      [] val.t = "int" -> "int"
      [] val.t = "none" -> "NoneType"
      [] OTHER -> "list"

\* Mutant: every boolean declared store_true, whatever the full parse read.
AuxArg_store_true(arg, val) ==
    IF val.t = "bool"
    THEN Arg(OptionString(arg), arg, "store_true", "None", "0", PyNone)
    ELSE IF arg \in string_list_argnames
    THEN Arg(OptionString(arg), arg, "store", "string_list", "None", PyNone)
    ELSE Arg(OptionString(arg), arg, "store", TypeOf(val), "None", PyNone)

\* The argument the auxiliary parser declares for one attribute of args.
AuxArg(arg, val) ==
    IF val.t = "bool"
    THEN Arg(OptionString(arg), arg, IF val.v THEN "store_true" ELSE "store_false",
             "None", "0", PyNone)
    ELSE IF arg \in string_list_argnames
    THEN Arg(OptionString(arg), arg, "store", "string_list", "None", PyNone)
    ELSE Arg(OptionString(arg), arg, "store", TypeOf(val), "None", PyNone)

\* aux_parser: argument_default=SUPPRESS, one option per attribute of args.
AuxParser(args) == [arg \in DOMAIN args |-> AuxArg(arg, args[arg])]

\* return args, cmd_args
Both(main, aux) == [ok |-> aux.ok, args |-> main.ns, cmd_args |-> aux.ns]

\* The auxiliary parse of the same tokens, given the full parse.
CommandLineOnly(args_list, main) ==
    IF ~main.ok THEN [ok |-> FALSE, args |-> EmptyMap, cmd_args |-> EmptyMap]
    ELSE Both(main, ParseFrom(AuxParser(main.ns), args_list, 1, EmptyMap, FALSE))

\* The values of the full parse that differ from their defaults.
Differing(main) ==
    IF ~main.ok THEN [ok |-> FALSE, args |-> EmptyMap, cmd_args |-> EmptyMap]
    ELSE [ok |-> TRUE,
          args |-> main.ns,
          cmd_args |-> [d \in {e \in DOMAIN main.ns :
                                  main.ns[e] # Defaults(Parser, 1, EmptyMap)[e]} |-> main.ns[d]]]

\* Mutant: the command-line-only values taken to be the values of the full
\* parse that differ from their defaults.
parse_args_from_command_line_by_difference(args_list) == Differing(MainParse(args_list))

\* parse_args_from_command_line: [ok, args, cmd_args]; not ok when either
\* parser exits with a usage error.
parse_args_from_command_line(args_list) == CommandLineOnly(args_list, MainParse(args_list))

\* _args_to_two_level_dict: section -> key -> value.
args_to_two_level_dict(args) ==
    [s \in {d[1] : d \in DOMAIN args} |->
        [k \in {d[2] : d \in {e \in DOMAIN args : e[1] = s}} |-> args[<<s, k>>]]]

\* Mutant: the keys d holds already keep their values.
Merge_setdefault(d, v) ==
    [k \in DOMAIN d \cup DOMAIN v |-> IF k \in DOMAIN d THEN d[k] ELSE v[k]]

\* d |= v
Merge(d, v) == [k \in DOMAIN d \cup DOMAIN v |-> IF k \in DOMAIN v THEN v[k] ELSE d[k]]

\* Mutant: args_dict[k] = v, the file's section in place of the parsed one.
Overlay_replace(args_dict, doc) ==
    IF \E k \in DOMAIN doc : doc[k].t # "dict"
    THEN [ok |-> FALSE, d |-> args_dict]
    ELSE [ok |-> TRUE,
          d |-> [s \in DOMAIN args_dict \cup DOMAIN doc |->
                    IF s \in DOMAIN doc THEN doc[s].v ELSE args_dict[s]]]

\* for k, v in tomllib.load(f).items(): args_dict[k] |= v, on a defaultdict.
\* [ok, d]: not ok (TypeError) when an entry of the top level is no table.
Overlay(args_dict, doc) ==
    IF \E k \in DOMAIN doc : doc[k].t # "dict"
    THEN [ok |-> FALSE, d |-> args_dict]
    ELSE [ok |-> TRUE,
          d |-> [s \in DOMAIN args_dict \cup DOMAIN doc |->
                    IF s \in DOMAIN doc
                    THEN Merge(IF s \in DOMAIN args_dict THEN args_dict[s] ELSE EmptyMap,
                               doc[s].v)
                    ELSE args_dict[s]]]

\* Mutant: a string of the file left as it is.
check_string_list_argument_unsplit(args_dict, fullargname) == args_dict

check_string_list_argument(args_dict, fullargname) ==
    LET section == fullargname[1]
        name == fullargname[2]
    IN  IF /\ section \in DOMAIN args_dict
           /\ name \in DOMAIN args_dict[section]
           /\ args_dict[section][name].t = "str"
        THEN [args_dict EXCEPT ![section][name] = string_list(args_dict[section][name].v)]
        ELSE args_dict

\* for n in string_list_argnames: check_string_list_argument(args_dict, n)
RECURSIVE CheckStringLists(_, _)
CheckStringLists(args_dict, names) ==
    IF names = {} THEN args_dict
    ELSE LET n == CHOOSE x \in names : TRUE
         IN  CheckStringLists(check_string_list_argument(args_dict, n), names \ {n})

\* for section, section_args in cmd_args_dict.items(): args_dict[section][k] = v
Override(args_dict, cmd_args_dict) ==
    [s \in DOMAIN args_dict \cup DOMAIN cmd_args_dict |->
        IF s \in DOMAIN cmd_args_dict
        THEN Merge(IF s \in DOMAIN args_dict THEN args_dict[s] ELSE EmptyMap,
                   cmd_args_dict[s])
        ELSE args_dict[s]]

\* self.args_dict = args_dict, then setattr(self, k, class_type()) for each
\* section k: an attribute of that name is replaced, whatever it held.
Materialize(obj, args_dict) ==
    [a \in DOMAIN obj \cup DOMAIN args_dict |->
        IF a \in DOMAIN args_dict THEN PyObj(args_dict[a])
        ELSE IF a = "args_dict" THEN PyDict(args_dict)
        ELSE obj[a]]

\* getattr(obj, name), then `assert` on it: "ok", or the exception's type.
AssertAttr(obj, name) ==
    IF name \notin DOMAIN obj.v THEN "AttributeError"
    ELSE IF Truthy(obj.v[name]) THEN "ok"
    ELSE "AssertionError"

\* Mutant: only model.config asserted.
validate_config_only(obj) == AssertAttr(obj["model"], "config")

\* The second assert, reached when the first held.
Then(first, second) == IF first # "ok" THEN first ELSE second

\* _validate_config: assert self.model.config, then
\* assert self.model.tokenizer_path.
validate_config(obj) ==
    Then(AssertAttr(obj["model"], "config"), AssertAttr(obj["model"], "tokenizer_path"))

\* What the file system holds at the path of --job.config_file.
FileErrors ==
    {"FileNotFoundError", "TOMLDecodeError", "IsADirectoryError",
     "PermissionError", "UnicodeDecodeError"}

\* The errors the except clause of parse_args catches, logs and raises again.
Caught == {"FileNotFoundError", "TOMLDecodeError"}

NoFile == [kind |-> "none", doc |-> EmptyMap]

Ends(exc, obj, log) == [raised |-> exc, obj |-> obj, logged |-> log]

\* What a failed assert of _validate_config raises from parse_args.
RaisedBy(outcome) == IF outcome = "ok" THEN "none" ELSE outcome

\* self._validate_config() on the JobConfig as parse_args set it.
Validated(set) == Ends(RaisedBy(validate_config(set)), set, FALSE)

\* Mutant: the mandatory fields asserted on the mapping as the file left
\* it, before the command-line values are written over it.
Resolve_validate_first(obj, loaded, cmd_args_dict) ==
    IF ~loaded.ok THEN Ends("TypeError", obj, FALSE)
    ELSE Ends(RaisedBy(validate_config(
                  Materialize(obj, CheckStringLists(loaded.d, string_list_argnames)))),
              Materialize(obj, Override(CheckStringLists(loaded.d, string_list_argnames),
                                        cmd_args_dict)),
              FALSE)

\* From the split of the string lists to the end of parse_args, given what
\* the file overlay left.
Resolve(obj, loaded, cmd_args_dict) ==
    IF ~loaded.ok THEN Ends("TypeError", obj, FALSE)
    ELSE Validated(Materialize(obj, Override(CheckStringLists(loaded.d, string_list_argnames),
                                             cmd_args_dict)))

\* Mutant: the mapping of the full parse stored on the JobConfig before the
\* config file is opened.
LoadAndResolve_store_first(obj, f, config_file, args_dict, cmd_args_dict) ==
    IF config_file.t = "none" THEN Resolve(obj, [ok |-> TRUE, d |-> args_dict], cmd_args_dict)
    ELSE IF f.kind # "doc"
    THEN Ends(IF f.kind = "none" THEN "FileNotFoundError" ELSE f.kind,
              [obj EXCEPT !["args_dict"] = PyDict(args_dict)],
              f.kind = "none" \/ f.kind \in Caught)
    ELSE Resolve(obj, Overlay(args_dict, f.doc), cmd_args_dict)

\* parse_args from `if config_file is not None` on: the file is opened and
\* loaded; an error of that leaves the JobConfig as it is, and is logged
\* with the path when the except clause catches it.
LoadAndResolve(obj, f, config_file, args_dict, cmd_args_dict) ==
    IF config_file.t = "none" THEN Resolve(obj, [ok |-> TRUE, d |-> args_dict], cmd_args_dict)
    ELSE IF f.kind # "doc"
    THEN Ends(IF f.kind = "none" THEN "FileNotFoundError" ELSE f.kind, obj,
              f.kind = "none" \/ f.kind \in Caught)
    ELSE Resolve(obj, Overlay(args_dict, f.doc), cmd_args_dict)

\* parse_args once the command line is parsed.
AfterCommandLine(obj, f, parsed) ==
    IF ~parsed.ok THEN Ends("SystemExit", obj, FALSE)
    ELSE LoadAndResolve(obj, f, parsed.args[D_config_file],
                        args_to_two_level_dict(parsed.args),
                        args_to_two_level_dict(parsed.cmd_args))

\* parse_args(args_list) on the JobConfig obj with f at the config path:
\* [raised, obj, logged].
parse_args(obj, args_list, f) ==
    IF obj["parser"].t # "parser" THEN Ends("AttributeError", obj, FALSE)
    ELSE AfterCommandLine(obj, f, parse_args_from_command_line(args_list))

\* ------------------------------------------------------------ inputs

\* Command-line tokens.
Opt(flag) == <<flag>>

T_20 == <<"2", "0">>
T_10000 == <<"1", "0", "0", "0", "0">>
T_empty == <<>>
T_ab == <<"a", ",", "b">>
T_c == <<"c">>
T_path == <<"cfg.toml">>

\* A flag with the values that follow it, or a token on its own.
Phrases ==
    { <<Opt(F_weights_only)>>, <<Opt(F_no_weights_only)>>, <<Opt(F_print_args)>>,
      <<Opt(F_steps), T_20>>, <<Opt(F_steps), T_10000>>, <<Opt(F_steps)>>,
      <<Opt(F_config), T_empty>>, <<Opt(F_config), T_c>>,
      <<Opt(F_tokenizer_path), T_empty>>,
      <<Opt(F_converters), T_ab>>, <<Opt(F_converters), T_empty>>,
      <<Opt(F_split_points), T_ab>>,
      <<Opt(F_exclude)>>,
      <<T_c>>,
      <<Opt(F_unknown), T_20>>,
      <<Opt(F_step), T_20>>, <<Opt(F_con), T_c>> }

RECURSIVE Bodies(_)
Bodies(n) ==
    IF n = 0 THEN {<<>>}
    ELSE LET B == Bodies(n - 1) IN B \cup {b \o p : b \in B, p \in Phrases}

ConfigArg == <<Opt(F_config_file), T_path>>

\* Config files: the top level of the parsed TOML document.
Section(name, key, val) == [s \in {name} |-> PyDict([k \in {key} |-> val])]

Doc(d) == [kind |-> "doc", doc |-> d]

S_a_b_c == <<"a", ",", " ", "b", " ", ",", "c">>
S_layers == <<"layers.0", ",", "layers.2">>
S_gaps == <<",", "a", ",", " ", ",", "b">>

Docs ==
    { EmptyMap,
      Section("training", "steps", PyInt(5000)),
      Section("checkpoint", "initial_load_model_weights_only", PyBool(TRUE))
        @@ Section("job", "print_args", PyBool(FALSE)),
      Section("checkpoint", "initial_load_model_weights_only", PyBool(FALSE))
        @@ Section("job", "print_args", PyBool(TRUE)),
      Section("model", "converters", PyStr(S_a_b_c))
        @@ Section("experimental", "pipeline_parallel_split_points", PyStr(S_layers)),
      Section("model", "converters", PyList(<<PyStr(<<"a", ",", "b">>), PyStr(<<"c">>)>>))
        @@ Section("checkpoint", "exclude_from_loading", PyStr(S_gaps)),
      Section("model", "config", PyStr(<<>>)),
      Section("model", "tokenizer_path", PyStr(<<>>))
        @@ Section("training", "steps", PyInt(DefaultSteps)),
      Section("model", "config", PyStr(<<"d">>)),
      Section("foo", "bar", PyInt(1)) @@ Section("training", "zzz", PyInt(2)),
      Section("args_dict", "bar", PyInt(1)),
      Section("checkpoint", "exclude_from_loading", PyInt(5)),
      Section("training", "steps", PyInt(5000)) @@ [s \in {"top"} |-> PyInt(3)] }

Files == {Doc(d) : d \in Docs} \cup {[kind |-> k, doc |-> EmptyMap] : k \in FileErrors}

\* A command line and the file at its config path.
Inputs ==
    {<<b, NoFile>> : b \in Bodies(MaxFlags)}
        \cup {<<b \o ConfigArg, f>> : b \in Bodies(MaxFlags), f \in Files}

\* ------------------------------------------------------------ behaviour

\* JobConfig(): args_dict is None, the parser is built.
JobConfig ==
    [a \in {"args_dict", "parser"} |->
        IF a = "parser" THEN [t |-> "parser", v |-> <<>>] ELSE PyNone]

Init ==
    /\ self = JobConfig
    /\ argv = <<>>
    /\ file = NoFile
    /\ raised = "none"
    /\ logged = FALSE
    /\ calls = 0
    /\ writes = 0

Call(args_list, f) ==
    LET r == parse_args(self, args_list, f)
    IN  /\ self' = r.obj
        /\ argv' = args_list
        /\ file' = f
        /\ raised' = r.raised
        /\ logged' = r.logged
        /\ calls' = calls + 1
        /\ UNCHANGED writes

\* One parse_args call on a fresh JobConfig.
ParseArgs ==
    /\ calls = 0
    /\ \E in \in Inputs : Call(in[1], in[2])

Next == ParseArgs

Spec == Init /\ [][Next]_vars

\* Several parse_args calls on one JobConfig, over fewer inputs.
SeqBodies ==
    { <<>>, <<Opt(F_steps), T_20>>, <<Opt(F_config), T_empty>>,
      <<Opt(F_no_weights_only)>>, <<Opt(F_unknown), T_20>> }

SeqDocs ==
    { Section("training", "steps", PyInt(5000)),
      Section("model", "config", PyStr(<<>>)),
      Section("foo", "bar", PyInt(1)) @@ Section("training", "zzz", PyInt(2)),
      Section("args_dict", "bar", PyInt(1)),
      Section("parser", "bar", PyInt(1)),
      Section("training", "steps", PyInt(5000)) @@ [s \in {"top"} |-> PyInt(3)] }

SeqFiles ==
    {Doc(d) : d \in SeqDocs}
        \cup {[kind |-> k, doc |-> EmptyMap] : k \in {"FileNotFoundError", "TOMLDecodeError"}}

SeqInputs ==
    {<<b, NoFile>> : b \in SeqBodies}
        \cup {<<b \o ConfigArg, f>> : b \in SeqBodies, f \in SeqFiles}

\* One more parse_args call on the same JobConfig.
ParseArgsAgain ==
    /\ calls < MaxCalls
    /\ \E in \in SeqInputs : Call(in[1], in[2])

NextSeq == ParseArgsAgain

SpecSeq == Init /\ [][NextSeq]_vars

\* to_dict(): return self.args_dict, the object itself and no copy of it.
to_dict == self["args_dict"]

\* The value the caller writes.
Written == PyInt(7)

\* to_dict()[section][key] = Written by the caller, on a key the mapping
\* holds: the mapping returned is the one self.args_dict refers to, so the
\* item is assigned there.  The section attributes hold their own copies.
CallerWrites ==
    /\ writes < MaxWrites
    /\ calls > 0
    /\ to_dict.t = "dict"
    /\ \E section \in DOMAIN to_dict.v :
          \E key \in DOMAIN to_dict.v[section] :
             self' = [self EXCEPT !["args_dict"] =
                         PyDict([to_dict.v EXCEPT ![section][key] = Written])]
    /\ writes' = writes + 1
    /\ UNCHANGED <<argv, file, raised, logged, calls>>

NextView == ParseArgsAgain \/ CallerWrites

\* parse_args calls and the caller's use of to_dict() in between.
SpecView == Init /\ [][NextView]_vars

\* ------------------------------------------------------------ vocabulary

\* The last parse_args call returned.
Returned == calls > 0 /\ raised = "none"

\* Option d has value x in the section attribute, and in to_dict() where
\* that is the two-level mapping.
ResolvesTo(d, x) ==
    /\ d[1] \in DOMAIN self
    /\ self[d[1]].t = "obj"
    /\ d[2] \in DOMAIN self[d[1]].v
    /\ self[d[1]].v[d[2]] = x
    /\ to_dict.t = "dict" =>
          /\ d[1] \in DOMAIN to_dict.v
          /\ d[2] \in DOMAIN to_dict.v[d[1]]
          /\ to_dict.v[d[1]][d[2]] = x

\* The command line holds the option string flag.
OnCommandLine(flag) == \E i \in DOMAIN argv : argv[i] = Opt(flag)

LastIndex(flag) ==
    CHOOSE i \in DOMAIN argv :
        argv[i] = Opt(flag) /\ \A j \in DOMAIN argv : argv[j] = Opt(flag) => j <= i

\* The command line names option d, by any of its option strings or by an
\* abbreviation that fits no other option.
Supplied(d) ==
    \E i \in DOMAIN argv :
        /\ IsOptionString(argv[i])
        /\ ActionsFor(Parser, argv[i]) # {}
        /\ \A k \in ActionsFor(Parser, argv[i]) : Parser[k].dest = d

\* The config file was named on the command line and gives option d a value.
FileSets(d) ==
    /\ OnCommandLine(F_config_file)
    /\ file.kind = "doc"
    /\ d[1] \in DOMAIN file.doc
    /\ file.doc[d[1]].t = "dict"
    /\ d[2] \in DOMAIN file.doc[d[1]].v

FileValue(d) == file.doc[d[1]].v[d[2]]

\* The catalog default of option d.
Default(d) ==
    Parser[CHOOSE k \in DOMAIN Parser :
              Parser[k].dest = d /\ \A j \in DOMAIN Parser : Parser[j].dest = d => k <= j].default

RECURSIVE Concat(_)
Concat(lists) == IF lists = <<>> THEN <<>> ELSE Head(lists).v \o Concat(Tail(lists))

\* The value the command line gives option d: what the full parser reads
\* for it, the lists of a list-typed option's tokens joined into one.
CmdValue(d) ==
    LET v == MainParse(argv).ns[d]
    IN  IF d \in string_list_argnames THEN PyList(Concat(v.v)) ELSE v

\* "Split on commas, trim each segment, drop the empty ones, keep the order",
\* stated over the positions of the commas.
Cuts(s) == {0} \cup {i \in 1..Len(s) : s[i] = ","} \cup {Len(s) + 1}

Cut(s, j) == CHOOSE c \in Cuts(s) : Cardinality({x \in Cuts(s) : x < c}) = j - 1

Trimmed(s, lo, hi) ==
    LET nb == {i \in (lo + 1)..(hi - 1) : s[i] # " "}
    IN  IF nb = {} THEN <<>>
        ELSE SubSeq(s, CHOOSE i \in nb : \A j \in nb : i <= j,
                       CHOOSE i \in nb : \A j \in nb : j <= i)

NotEmpty(x) == x # <<>>

ExpectedSplit(s) ==
    LET segs == [j \in 1..(Cardinality(Cuts(s)) - 1) |-> Trimmed(s, Cut(s, j), Cut(s, j + 1))]
        kept == SelectSeq(segs, NotEmpty)
    IN  PyList([j \in DOMAIN kept |-> PyStr(kept[j])])

\* The file's value of option d as the resolution is to take it: a scalar
\* string given for a comma-separated list option is its list of segments.
FileValueRead(d) ==
    IF d \in string_list_argnames /\ FileValue(d).t = "str"
    THEN ExpectedSplit(FileValue(d).v)
    ELSE FileValue(d)

\* ------------------------------------------------------------ claims

\* C1: for every option present both in the config file and on the command
\* line, the resolved value (section attribute and to_dict()) is the
\* command-line value; boolean flags, the negation flag and list-typed
\* options included.
C1_CommandLineWins ==
    Returned => \A d \in Dests : (Supplied(d) /\ FileSets(d)) => ResolvesTo(d, CmdValue(d))

\* C2 as stated: an option the file sets and the command line does not
\* supply resolves to the file's value itself.
C2_FileValueAsWritten ==
    Returned => \A d \in Dests : (FileSets(d) /\ ~Supplied(d)) => ResolvesTo(d, FileValue(d))

\* C2, amended: an option the file sets and the command line does not supply
\* resolves to the file's value, not the default, where a scalar string given
\* for a comma-separated list option counts as the list of its trimmed,
\* non-empty segments.
C2_FileOverridesDefault ==
    Returned => \A d \in Dests : (FileSets(d) /\ ~Supplied(d)) => ResolvesTo(d, FileValueRead(d))

C2_Witness ==
    /\ Returned
    /\ FileSets(D_steps) /\ ~Supplied(D_steps)
    /\ FileValue(D_steps) = PyInt(5000)
    /\ FileValue(D_steps) # Default(D_steps)
    /\ ResolvesTo(D_steps, PyInt(5000))

\* C3: an option that neither the file nor the command line specifies
\* resolves to its catalog default; with no file and an empty argv every
\* option does (training.steps is 10000).
C3_DefaultWhenUnspecified ==
    Returned => \A d \in Dests : (~FileSets(d) /\ ~Supplied(d)) => ResolvesTo(d, Default(d))

C3_Witness ==
    /\ Returned
    /\ argv = <<>>
    /\ file = NoFile
    /\ ResolvesTo(D_steps, PyInt(10000))
    /\ \A d \in Dests : ResolvesTo(d, Default(d))

\* C4: when the file sets an option to a value other than its default and
\* the command line supplies the default value itself, the option resolves
\* to the default (the command-line value), not to the file's value.
C4_RepeatedDefaultWins ==
    Returned =>
        \A d \in Dests :
            (/\ FileSets(d) /\ FileValueRead(d) # Default(d)
             /\ Supplied(d) /\ CmdValue(d) = Default(d))
                => ResolvesTo(d, Default(d))

C4_Witness ==
    /\ Returned
    /\ FileSets(D_steps) /\ FileValue(D_steps) = PyInt(5000)
    /\ Supplied(D_steps) /\ CmdValue(D_steps) = PyInt(DefaultSteps)
    /\ ResolvesTo(D_steps, PyInt(DefaultSteps))

\* C5: with the negation flag on the command line and the affirmative flag
\* not, checkpoint.initial_load_model_weights_only resolves to false,
\* whatever the config file gives that key.
C5_NegationFlagWins ==
    (Returned /\ OnCommandLine(F_no_weights_only) /\ ~OnCommandLine(F_weights_only))
        => ResolvesTo(D_weights_only, PyBool(FALSE))

\* C6: with both the affirmative and the negation flag on the command line,
\* the last of them decides the resolved value, for either value the config
\* file gives the key.
C6_LastFlagWins ==
    (Returned /\ OnCommandLine(F_weights_only) /\ OnCommandLine(F_no_weights_only))
        => ResolvesTo(D_weights_only,
                      PyBool(LastIndex(F_weights_only) > LastIndex(F_no_weights_only)))

C6_Witness ==
    /\ Returned
    /\ OnCommandLine(F_weights_only) /\ OnCommandLine(F_no_weights_only)
    /\ LastIndex(F_no_weights_only) > LastIndex(F_weights_only)
    /\ FileSets(D_weights_only) /\ FileValue(D_weights_only) = PyBool(TRUE)
    /\ ResolvesTo(D_weights_only, PyBool(FALSE))

\* The tokens that follow the last occurrence of a list option's flag, up
\* to the next option string.
ValuesAfter(flag) ==
    LET i == LastIndex(flag)
        stop == {j \in DOMAIN argv : j > i /\ IsOptionString(argv[j])} \cup {Len(argv) + 1}
    IN  SubSeq(argv, i + 1, (CHOOSE j \in stop : \A k \in stop : j <= k) - 1)

\* C7: a list-typed option supplied on the command line resolves to the
\* values of all the tokens after its flag, split on commas and joined in
\* order into one flat sequence; no token is dropped.
C7_AllTokensKept ==
    Returned =>
        \A d \in string_list_argnames :
            OnCommandLine(OptionString(d)) =>
                ResolvesTo(d, PyList(Concat([j \in DOMAIN ValuesAfter(OptionString(d)) |->
                                               ExpectedSplit(ValuesAfter(OptionString(d))[j])])))

\* C8: a comma-separated list option the command line does not supply
\* resolves, from a scalar string in the file, to its segments between the
\* commas, trimmed, the empty ones dropped, in order; from a list in the
\* file, to that list unchanged.
C8_FileStringSplit ==
    Returned =>
        \A d \in string_list_argnames :
            (FileSets(d) /\ ~Supplied(d)) =>
                /\ FileValue(d).t = "str" => ResolvesTo(d, ExpectedSplit(FileValue(d).v))
                /\ FileValue(d).t = "list" => ResolvesTo(d, FileValue(d))

C8_Witness ==
    /\ Returned
    /\ ~Supplied(D_converters) /\ ~Supplied(D_split_points)
    /\ FileSets(D_converters) /\ FileValue(D_converters) = PyStr(S_a_b_c)
    /\ ResolvesTo(D_converters, PyList(<<PyStr(<<"a">>), PyStr(<<"b">>), PyStr(<<"c">>)>>))
    /\ FileSets(D_split_points) /\ FileValue(D_split_points) = PyStr(S_layers)
    /\ ResolvesTo(D_split_points, PyList(<<PyStr(<<"layers.0">>), PyStr(<<"layers.2">>)>>))

\* C8, the other case: a list in the file stays as it is.
C8_WitnessList ==
    /\ Returned
    /\ FileSets(D_converters) /\ FileValue(D_converters).t = "list"
    /\ ResolvesTo(D_converters, FileValue(D_converters))

\* C9: when a config file path is supplied and the file is missing or is no
\* valid TOML, parse_args fails, with that error when the command line
\* itself was accepted, and the JobConfig is as it was before the call:
\* to_dict() returns what it returned, no section attribute is created or
\* changed.
C9_FileErrorExposesNothing ==
    [][ (/\ calls' = calls + 1
         /\ OnCommandLine(F_config_file)'
         /\ file'.kind \in {"FileNotFoundError", "TOMLDecodeError"})
          => /\ raised' # "none"
             /\ raised' \notin {"SystemExit", "AttributeError"} => raised' = file'.kind
             /\ to_dict' = to_dict
             /\ self' = self ]_vars

\* A call that failed on the file, on a JobConfig an earlier call resolved.
C9_Witness ==
    /\ calls = 2
    /\ OnCommandLine(F_config_file)
    /\ file.kind = "TOMLDecodeError"
    /\ raised = "TOMLDecodeError"
    /\ to_dict.t = "dict"
    /\ "training" \in DOMAIN self

\* The value precedence gives option d: the command line's, else the
\* file's, else the default.
Precedence(d) ==
    IF Supplied(d) THEN CmdValue(d)
    ELSE IF FileSets(d) THEN FileValueRead(d)
    ELSE Default(d)

\* The attribute of the section object that holds option d is empty.
ResolvedEmpty(d) ==
    /\ d[1] \in DOMAIN self
    /\ self[d[1]].t = "obj"
    /\ d[2] \in DOMAIN self[d[1]].v
    /\ ~Truthy(self[d[1]].v[d[2]])

\* C10: a call that got through the command line and the file fails with
\* an AssertionError exactly when the resolved model.config or
\* model.tokenizer_path is empty, the resolved value being the one
\* precedence gives.
C10_MandatoryFields ==
    (calls > 0 /\ raised \in {"none", "AssertionError"}) =>
        /\ raised = "AssertionError" <=>
              (ResolvedEmpty(D_config) \/ ResolvedEmpty(D_tokenizer_path))
        /\ raised = "AssertionError" <=>
              (~Truthy(Precedence(D_config)) \/ ~Truthy(Precedence(D_tokenizer_path)))

C10_Witness ==
    /\ calls > 0
    /\ raised = "AssertionError"
    /\ FileSets(D_tokenizer_path) /\ FileValue(D_tokenizer_path) = PyStr(<<>>)
    /\ ~Supplied(D_tokenizer_path)
    /\ ~ResolvedEmpty(D_config)
    /\ ResolvedEmpty(D_tokenizer_path)

\* C11: a parse_args call that fails, for whatever reason, leaves the
\* JobConfig as it was before the call: to_dict() returns what it returned
\* (None on a fresh instance) and no section attribute is set or replaced.
C11_AllOrNothing ==
    [][ (calls' = calls + 1 /\ raised' # "none")
          => (to_dict' = to_dict /\ self' = self) ]_vars

\* C12: after every parse_args call that returned, to_dict() is the
\* two-level mapping and holds a value at [section][key] for every option
\* the catalog declares, whatever the command line and the file held.
C12_EveryOptionResolved ==
    Returned =>
        /\ to_dict.t = "dict"
        /\ \A d \in Dests : d[1] \in DOMAIN to_dict.v /\ d[2] \in DOMAIN to_dict.v[d[1]]

\* C13: after a parse_args call that returned, what the caller does to a
\* mapping that to_dict() returned does not change what a later to_dict()
\* call returns.
C13_ReadOnlySnapshot ==
    [][ (Returned /\ writes' = writes + 1) => to_dict' = to_dict ]_vars

\* The token at i of the command line is a flag that no add_argument call
\* declares.
Undeclared(i) ==
    /\ IsOptionString(argv[i])
    /\ argv[i][1] \notin {Parser[k].flag : k \in DOMAIN Parser}

\* The call ended in the full parse: a usage error, the config file not
\* reported, the JobConfig as it was constructed.
FailedInFullParse == raised = "SystemExit" /\ ~logged /\ self = JobConfig

\* C14 as stated: a command line that holds a flag the catalog does not
\* declare makes parse_args fail in the full parse, before the config file
\* is read and before any configuration is exposed.
C14_UndeclaredFlagFails ==
    (calls > 0 /\ \E i \in DOMAIN argv : Undeclared(i)) => FailedInFullParse

\* C14, amended: a command line that holds a flag which is neither declared
\* nor the abbreviation of exactly one declared option string makes
\* parse_args fail in the full parse, before the config file is read and
\* before any configuration is exposed.
C14_UnknownFlagFails ==
    (calls > 0 /\ \E i \in DOMAIN argv :
                     Undeclared(i) /\ Cardinality(ActionsFor(Parser, argv[i])) # 1)
        => FailedInFullParse

\* An unknown flag together with a config path at which no file is: the
\* call ends with the usage error, not with the file's.
C14_Witness ==
    /\ calls > 0
    /\ \E i \in DOMAIN argv : argv[i] = Opt(F_unknown)
    /\ OnCommandLine(F_config_file)
    /\ file.kind = "FileNotFoundError"
    /\ FailedInFullParse

\* The two-level mapping of the full command-line parse, before the overlay.
FullParse == args_to_two_level_dict(MainParse(argv).ns)

\* What the overlay of the file makes of it.
Overlaid == Overlay(FullParse, file.doc)

\* The call parsed the command line and loaded the file.
FileRead ==
    /\ calls > 0
    /\ MainParse(argv).ok
    /\ OnCommandLine(F_config_file)
    /\ file.kind = "doc"

\* The file names the key of the section.
Mentions(section, key) ==
    /\ section \in DOMAIN file.doc
    /\ file.doc[section].t = "dict"
    /\ key \in DOMAIN file.doc[section].v

\* The keys the file does not mention have in `after` the values of `before`;
\* and a call that returned resolved them to those values, save a list-typed
\* option the command line supplies, which the override then sets.
Framed(before, after) ==
    \A section \in DOMAIN before :
        \A key \in DOMAIN before[section] :
            ~Mentions(section, key) =>
                /\ section \in DOMAIN after
                /\ key \in DOMAIN after[section]
                /\ after[section][key] = before[section][key]
                /\ (/\ Returned
                    /\ ~(<<section, key>> \in string_list_argnames
                           /\ Supplied(<<section, key>>)))
                      => ResolvesTo(<<section, key>>, before[section][key])

\* C15: for every (section, key) the file does not mention, the section
\* absent from the file or present with other keys, the value after the
\* overlay is the value of the full command-line parse before it, and the
\* value a returned call resolved the option to.
C15_OverlayFrame == FileRead => Framed(FullParse, Overlaid.d)

\* The file gives [training] a key other than steps, and no [model] at all;
\* the command line sets training.steps.
C15_Witness ==
    /\ FileRead /\ Returned
    /\ Mentions("training", "zzz") /\ ~Mentions("training", "steps")
    /\ "model" \notin DOMAIN file.doc
    /\ FullParse["training"]["steps"] = PyInt(20)
    /\ Overlaid.d["training"]["zzz"] = PyInt(2)
    /\ Overlaid.d["training"]["steps"] = PyInt(20)
    /\ Overlaid.d["model"] = FullParse["model"]
    /\ ResolvesTo(D_steps, PyInt(20))

\* The call got to the config file and could not open it or could not load
\* it: no file, no permission, a directory, bytes that are no UTF-8, text
\* that is no TOML, or an entry of the top level that is no table.
FileFailure ==
    /\ calls > 0
    /\ raised \notin {"SystemExit", "AttributeError"}
    /\ OnCommandLine(F_config_file)
    /\ \/ file.kind \in FileErrors
       \/ file.kind = "doc" /\ \E k \in DOMAIN file.doc : file.doc[k].t # "dict"

\* C16: every failure to open or to load the config file is reported through
\* the logger, with the path, before the error leaves parse_args.
C16_FileFailureLogged == FileFailure => (raised # "none" /\ logged)

\* C17: the mandatory fields are judged on the final values: when the
\* command line supplies model.config (or model.tokenizer_path), a call that
\* got through the command line and the file fails with an AssertionError
\* exactly when the command line's value is empty or the other field
\* resolved empty, whatever the file gives the supplied field.
C17_ValidatedAfterOverride ==
    (calls > 0 /\ raised \in {"none", "AssertionError"}) =>
        /\ Supplied(D_config) =>
              (raised = "AssertionError" <=>
                  (~Truthy(CmdValue(D_config)) \/ ResolvedEmpty(D_tokenizer_path)))
        /\ Supplied(D_tokenizer_path) =>
              (raised = "AssertionError" <=>
                  (~Truthy(CmdValue(D_tokenizer_path)) \/ ResolvedEmpty(D_config)))

\* The file sets model.config to the empty string, the command line to "c":
\* the call returns.
C17_Witness ==
    /\ Returned
    /\ FileSets(D_config) /\ FileValue(D_config) = PyStr(<<>>)
    /\ Supplied(D_config) /\ CmdValue(D_config) = PyStr(T_c)
    /\ ResolvesTo(D_config, PyStr(T_c))

\* C17, the other case: the file sets model.config to "d", the command line
\* to the empty string: the call fails.
C17_WitnessFails ==
    /\ calls > 0 /\ raised = "AssertionError"
    /\ FileSets(D_config) /\ FileValue(D_config) = PyStr(<<"d">>)
    /\ Supplied(D_config) /\ CmdValue(D_config) = PyStr(<<>>)
    /\ ResolvedEmpty(D_config)
    /\ ~ResolvedEmpty(D_tokenizer_path)

\* The file gives the key of the section, and the catalog declares no such
\* option.
UndeclaredInFile(section, key) ==
    /\ OnCommandLine(F_config_file)
    /\ file.kind = "doc"
    /\ Mentions(section, key)
    /\ <<section, key>> \notin Dests

\* to_dict() is the two-level mapping and holds x at [section][key].
InToDict(section, key, x) ==
    /\ to_dict.t = "dict"
    /\ section \in DOMAIN to_dict.v
    /\ key \in DOMAIN to_dict.v[section]
    /\ to_dict.v[section][key] = x

\* C18: after a parse_args call that returned, every section and key of the
\* file that the catalog does not declare is in to_dict() with the file's
\* value, and every declared option has the value precedence gives it.
C18_UndeclaredAdmitted ==
    Returned =>
        \A section \in DOMAIN file.doc :
            \A key \in DOMAIN file.doc[section].v :
                UndeclaredInFile(section, key) =>
                    /\ InToDict(section, key, file.doc[section].v[key])
                    /\ \A d \in Dests : ResolvesTo(d, Precedence(d))

\* C19: the command-line-only parse never fails on a command line the full
\* parser accepted: the auxiliary parser returns its namespace too, and the
\* call ends with no usage error (it can fail on the file or on the mandatory
\* fields only).
C19_ReparseNeverFails ==
    (calls > 0 /\ MainParse(argv).ok) =>
        /\ parse_args_from_command_line(argv).ok
        /\ raised # "SystemExit"

\* The attributes of the JobConfig that hold a section object.
SectionAttributes == {a \in DOMAIN self : self[a].t = "obj"}

\* C20: after any sequence of parse_args calls of which the last returned,
\* to_dict() is the two-level mapping of that call, the section attributes
\* are exactly its sections, and each holds exactly the keys and values of
\* its section.
C20_ViewsCoincide ==
    Returned =>
        /\ to_dict.t = "dict"
        /\ SectionAttributes = DOMAIN to_dict.v
        /\ \A section \in DOMAIN to_dict.v : self[section] = PyObj(to_dict.v[section])

\* x is a list whose items are strings: no raw string, no list in a list.
FlatStrings(x) == x.t = "list" /\ \A i \in DOMAIN x.v : x.v[i].t = "str"

\* Option d resolved to a flat list of strings, in the section attribute and
\* in to_dict() where that is the two-level mapping.
ResolvedFlat(d) ==
    /\ d[1] \in DOMAIN self
    /\ self[d[1]].t = "obj"
    /\ d[2] \in DOMAIN self[d[1]].v
    /\ FlatStrings(self[d[1]].v[d[2]])
    /\ to_dict.t = "dict" =>
          /\ d[1] \in DOMAIN to_dict.v
          /\ d[2] \in DOMAIN to_dict.v[d[1]]
          /\ FlatStrings(to_dict.v[d[1]][d[2]])

\* The file gives every list-typed option no value, a string, or a list of
\* strings.
FileListsWellTyped ==
    \A d \in string_list_argnames :
        FileSets(d) => (FileValue(d).t = "str" \/ FlatStrings(FileValue(d)))

\* C21: after a parse_args call that returned, the file giving each
\* list-typed option no value, a string or a list of strings, every
\* list-typed option resolved to a flat list of strings, whether the value
\* came from the default, the file or the command line.
C21_ListsFlat ==
    (Returned /\ FileListsWellTyped) => \A d \in string_list_argnames : ResolvedFlat(d)

\* model.converters from two command-line tokens, which the full parse
\* holds as a list of lists; pipeline_parallel_split_points from a string of
\* the file; exclude_from_loading from its default.
C21_Witness ==
    /\ Returned
    /\ Supplied(D_converters)
    /\ Len(MainParse(argv).ns[D_converters].v) = 2
    /\ \A i \in DOMAIN MainParse(argv).ns[D_converters].v :
          MainParse(argv).ns[D_converters].v[i].t = "list"
    /\ FileSets(D_split_points) /\ FileValue(D_split_points).t = "str"
    /\ ~Supplied(D_split_points)
    /\ ~Supplied(D_exclude) /\ ~FileSets(D_exclude)
    /\ \A d \in string_list_argnames : ResolvedFlat(d)

====
